---- MODULE Spec2Model ----
(***************************************************************************)
(* A model of the two-stage document pipeline of ws-doc-processing:        *)
(*   Stage 1  PDFTextParser.parse_and_save      (tools/pdf_text_parser.py) *)
(*   Stage 2  OpenAIDataExtractor               (tools/pdf_field_extractor)*)
(*   main     the coordinator and its two worker pools           (main.py) *)
(*                                                                         *)
(* Text and file names are sequences of one-character strings, so that the *)
(* string operations of the code (strip, split/join, endswith, splitext,   *)
(* slicing, concatenation) are computed and not assumed.  A Python dict is *)
(* a record; a key the dict lacks is a field the record lacks.             *)
(***************************************************************************)
EXTENDS Integers, Sequences, FiniteSets, TLC

VARIABLES
    \* ---- one call of PDFTextParser.parse_and_save
    p_pc,       \* "new" | "call" | "returned", or "failed_construction"
    p_ctor,     \* what PDFTextParser() finds: "ok" | "no_poppler" | "no_tesseract"
    p_pdf,      \* the file name of the PDF inside the input directory
    p_doc,      \* what the environment does during the call (see Docs)
    p_fs0,      \* the output directory before the call
    p_fs,       \* the output directory now
    p_result,   \* the returned dict (or the exception that left the call)
    p_text,     \* the local extracted_text: what extract_text_ocr returned
    \* ---- one call of OpenAIDataExtractor.extract_marine_fuel_data
    e_pc,       \* "call" | "prompted" | "truncated" | "answered" | "returned"
    e_text,     \* the argument document_text, as passed by the caller
    e_local,    \* the local variable document_text
    e_service,  \* what the completion service does (see Services)
    e_prompt,   \* the local variable prompt
    e_sent,     \* the user message the service received
    e_content,  \* response.choices[0].message.content
    e_result,   \* the returned dict
    \* ---- one call of OpenAIDataExtractor.process_parsed_text_file
    f_pc,       \* "call" | "returned"
    f_file,     \* the name of the text file inside the parsed directory
    f_src,      \* the Stage-1 result whose text artifact the file is, if it is one
    f_written,  \* the extracted_text Stage 1 wrote into that artifact
    f_env,      \* what the environment does during the call
    f_fs,       \* the output directory
    f_text,     \* the document text handed to extract_marine_fuel_data
    f_result,   \* the returned dict
    \* ---- one page of a PDF: preprocess_image_for_ocr, then the OCR adapter
    g_pc,       \* "call" | "preprocessed" | "returned"
    g_image,    \* the rendered page
    g_env,      \* which step of the pipeline raises, and what Tesseract yields
    g_processed,            \* what preprocess_image_for_ocr returned
    g_text,     \* what extract_text_with_ocr_config returned
    \* ---- one run of main
    m_pc,       \* where the coordinator is
    m_exit,     \* why main returned ("running" until it does)
    environment,            \* what is installed and configured: the OCR toolchain
                            \* (Poppler and Tesseract), the Azure OpenAI client
    raw_dir,    \* PDF_DIRECTORY: whether it exists, and its listing
    parsed_dir, \* PARSED_DIRECTORY
    extract_dir,            \* EXTRACT_DIRECTORY
    pdf_files,              \* the list pdf_files
    parsing_results,        \* the results of the Stage-1 pool, by input position
    text_files,             \* the list text_files
    extraction_results,     \* the results of the Stage-2 pool, by input position
    pool,                   \* the worker pool of the running stage
    successful_parses,
    failed_parses,
    successful_extractions,
    failed_extractions,
    printed,                \* the per-document lines main printed in Stage 1
    report_log,             \* the writes of the consolidated report file
    crashed,                \* the items <<stage, i>> whose worker saw an exception
                            \* leave the constructor or the per-document call
    \* ---- one pool stage of main over a long input list
    k_pc,       \* "start" | "running" | "done"
    k_stage,    \* 1 or 2
    k_items,    \* the input list of the stage (pdf_files or text_files)
    k_pool      \* the worker pool of the stage

parseVars == <<p_pc, p_ctor, p_pdf, p_doc, p_fs0, p_fs, p_result, p_text>>
extractVars == <<e_pc, e_text, e_local, e_service, e_prompt, e_sent, e_content, e_result>>
mainVars == <<m_pc, m_exit, environment, raw_dir, parsed_dir, extract_dir, pdf_files, parsing_results,
              text_files, extraction_results, pool, successful_parses, failed_parses,
              successful_extractions, failed_extractions, printed, report_log, crashed>>
processVars == <<f_pc, f_file, f_src, f_written, f_env, f_fs, f_text, f_result>>
pageVars == <<g_pc, g_image, g_env, g_processed, g_text>>
poolVars == <<k_pc, k_stage, k_items, k_pool>>
vars == <<parseVars, extractVars, processVars, pageVars, mainVars, poolVars>>

None == "None"

(***************************************************************************)
(* Bounds of the model.                                                    *)
(***************************************************************************)
MaxPages == 2      \* pages of a PDF
MaxFiles == 2      \* entries of the input directory
MaxItems == 38     \* input files of one pool stage, where only their number counts

(***************************************************************************)
(* String literals of the code, as character sequences.                    *)
(***************************************************************************)
Ext_txt == <<".", "t", "x", "t">>
Suffix_info_txt == <<"_", "i", "n", "f", "o", ".", "t", "x", "t">>
Ext_pdf == <<".", "p", "d", "f">>
Suffix_original_png == <<"_", "o", "r", "i", "g", "i", "n", "a", "l", ".", "p", "n", "g">>
Suffix_processed_png == <<"_", "p", "r", "o", "c", "e", "s", "s", "e", "d", ".", "p", "n", "g">>
Infix_original_page == <<"_", "o", "r", "i", "g", "i", "n", "a", "l", "_", "p", "a", "g", "e", "_">>
Infix_processed_page == <<"_", "p", "r", "o", "c", "e", "s", "s", "e", "d", "_", "p", "a", "g", "e", "_">>
Ext_png == <<".", "p", "n", "g">>
PageMarkerHead == <<"-", "-", "-", " ", "P", "a", "g", "e", " ">>
PageMarkerTail == <<" ", "-", "-", "-", "\n">>
Suffix_json == <<"_", "c", "o", "n", "t", "a", "c", "t", "_", "i", "n", "f", "o", "r", "m", "a", "t", "i", "o", "n", "_", "d", "a", "t", "a", ".", "j", "s", "o", "n">>
TruncationMarker == <<"\n", "[", ".", ".", ".", "T", "R", "U", "N", "C", "A", "T", "E", "D", ".", ".", ".", "]">>

Name_a_pdf == <<"a", ".", "p", "d", "f">>
Name_a_PDF == <<"a", ".", "P", "D", "F">>
Name_b_pdf == <<"b", ".", "p", "d", "f">>
Name_a_info_pdf == <<"a", "_", "i", "n", "f", "o", ".", "p", "d", "f">>
Name_n_txt == <<"n", ".", "t", "x", "t">>
Name_old_txt == <<"o", "l", "d", ".", "t", "x", "t">>

(***************************************************************************)
(* Python's str operations.                                                *)
(***************************************************************************)
IsSpace(c) == c \in {" ", "\n", "\t"}

RECURSIVE lstrip(_)
lstrip(s) == IF s = <<>> THEN s
             ELSE IF IsSpace(Head(s)) THEN lstrip(Tail(s)) ELSE s

RECURSIVE rstrip(_)
rstrip(s) == IF s = <<>> THEN s
             ELSE IF IsSpace(s[Len(s)]) THEN rstrip(SubSeq(s, 1, Len(s) - 1)) ELSE s

\* s.strip()
strip(s) == rstrip(lstrip(s))

RECURSIVE Collapse(_)
Collapse(s) ==
    IF s = <<>> THEN <<>>
    ELSE IF IsSpace(Head(s))
         THEN LET r == lstrip(s) IN IF r = <<>> THEN <<>> ELSE <<" ">> \o Collapse(r)
         ELSE <<Head(s)>> \o Collapse(Tail(s))

\* ' '.join(s.split())
split_join(s) == Collapse(lstrip(s))

\* s.endswith(suf)
endswith(s, suf) ==
    /\ Len(suf) <= Len(s)
    /\ SubSeq(s, Len(s) - Len(suf) + 1, Len(s)) = suf

LowerChar(c) ==
    CASE c = "P" -> "p" [] c = "D" -> "d" [] c = "F" -> "f"
      [] c = "T" -> "t" [] c = "X" -> "x" [] c = "A" -> "a" [] c = "B" -> "b"
      [] OTHER -> c

\* s.lower()
lower(s) == [i \in 1..Len(s) |-> LowerChar(s[i])]

Digit == <<"0", "1", "2", "3", "4", "5", "6", "7", "8", "9">>

\* str(n) of a natural number
RECURSIVE str(_)
str(n) == IF n < 10 THEN <<Digit[n + 1]>> ELSE str(n \div 10) \o <<Digit[(n % 10) + 1]>>

\* the index of the last "." of s, 0 when there is none
LastDot(s) == LET D == {i \in 1..Len(s) : s[i] = "."}
              IN IF D = {} THEN 0 ELSE CHOOSE i \in D : \A j \in D : j <= i

\* os.path.splitext(name)[0]: the extension starts at the last dot, unless
\* only dots precede it.
splitext_base(name) ==
    LET k == LastDot(name)
    IN  IF k = 0 \/ (\A j \in 1..(k - 1) : name[j] = ".") THEN name
        ELSE SubSeq(name, 1, k - 1)

\* the positions at which sub occurs in s
Occurrences(s, sub) ==
    {i \in 1..(Len(s) - Len(sub) + 1) : \A k \in 1..Len(sub) : s[i + k - 1] = sub[k]}

\* sub in s
contains(s, sub) == Occurrences(s, sub) # {}

\* the position of the leftmost occurrence of sub in s (there is one)
find(s, sub) == LET O == Occurrences(s, sub) IN CHOOSE i \in O : \A j \in O : i <= j

\* s.split(sep): the pieces between the occurrences of sep, leftmost first
RECURSIVE split(_, _)
split(s, sep) ==
    LET O == Occurrences(s, sep)
    IN  IF O = {} THEN <<s>>
        ELSE LET i == CHOOSE x \in O : \A y \in O : x <= y
             IN  <<SubSeq(s, 1, i - 1)>> \o split(SubSeq(s, i + Len(sep), Len(s)), sep)

\* s.split(sep, 1): at most one cut
split_1(s, sep) ==
    IF ~contains(s, sep) THEN <<s>>
    ELSE LET i == find(s, sep)
         IN  <<SubSeq(s, 1, i - 1), SubSeq(s, i + Len(sep), Len(s))>>

(***************************************************************************)
(* A directory: a function from the names of its files to what is known of *)
(* each file: which source documents wrote it, and whether the last write  *)
(* went through.  Files that were there before the run have no writer.     *)
(***************************************************************************)
EmptyDir == [n \in {} |-> None]

\* a write that leaves no file
write_file_lost(fs, name, src, complete) == fs

write_file(fs, name, src, complete) ==
    [n \in (DOMAIN fs) \cup {name} |->
        IF n = name
        THEN [writers |-> (IF name \in DOMAIN fs THEN fs[name].writers ELSE {}) \cup {src},
              complete |-> complete]
        ELSE fs[n]]

(***************************************************************************)
(* Python dicts and exceptions.                                            *)
(***************************************************************************)
\* an exception that leaves a call, with str(e)
Raise(msg) == [exception |-> msg]
IsRaise(r) == "exception" \in DOMAIN r

\* d.get(k, default)
dict_get(d, k, default) == IF k \in DOMAIN d THEN d[k] ELSE default

\* d.get("success"), as a truth value
get_success(d) == dict_get(d, "success", FALSE)

(***************************************************************************)
(* Stage 1: PDFTextParser (tools/pdf_text_parser.py).                      *)
(*                                                                         *)
(* What the environment does during one call is a record d:                *)
(*   exists      os.path.exists(pdf_path)                                  *)
(*   makedirs_ok os.makedirs(output_dir) returns (else it raises)          *)
(*   convert_ok  convert_from_path returns the pages (else it raises)      *)
(*   pages       per page: the text Tesseract returns, whether it raises,  *)
(*               and whether saving the two page images goes through       *)
(*   text_write  "ok" | "fail_open" (no file) | "fail_write" (partial file)*)
(*   info_write  the same, for the info file                               *)
(* os.stat is taken to succeed on a file that exists.                      *)
(***************************************************************************)
MinTextLen == 10

(***************************************************************************)
(* PDFTextParser.preprocess_image_for_ocr.  An image is its size and the    *)
(* list of the operations applied to it; a rendered page has none.          *)
(***************************************************************************)
MinDim == 300

\* the steps of the pipeline, in the order of the code
PipelineSteps ==
    <<"cvtColor RGB2BGR", "cvtColor BGR2GRAY", "GaussianBlur", "adaptiveThreshold",
      "morphologyEx OPEN", "morphologyEx CLOSE", "dilate", "medianBlur", "filter2D",
      "Image.fromarray", "Contrast 1.5", "Brightness 1.1", "resize LANCZOS">>

\* the image sizes of the model, and the pairs <<d, m>> of them for which the
\* double product d * (300 / m) falls just below the integer d * 300 / m
Sizes == {7, 21, 281, 299, 300, 2550}
FloatLoss == {<<21, 7>>, <<281, 281>>}

\* int(d * scale_factor), with scale_factor = max(300/width, 300/height) = 300/m
scaled(d, m) == (d * MinDim) \div m - (IF <<d, m>> \in FloatLoss THEN 1 ELSE 0)

\* if width < 300 or height < 300
is_small(image) == image.width < MinDim \/ image.height < MinDim

\* the steps the call runs on an image: the resize only on a small one
steps_run(image) ==
    IF is_small(image) THEN PipelineSteps
    ELSE SubSeq(PipelineSteps, 1, Len(PipelineSteps) - 1)

\* the pipeline when no step raises
enhance(image) ==
    LET m == IF image.width <= image.height THEN image.width ELSE image.height
    IN  [width |-> IF is_small(image) THEN scaled(image.width, m) ELSE image.width,
         height |-> IF is_small(image) THEN scaled(image.height, m) ELSE image.height,
         steps |-> image.steps \o steps_run(image)]

\* the function without its try/except: a failing step leaves the call
preprocess_image_for_ocr_unguarded(image, fail_step) ==
    IF fail_step \in 1..Len(steps_run(image)) THEN Raise(PipelineSteps[fail_step])
    ELSE enhance(image)

\* PDFTextParser.preprocess_image_for_ocr; fail_step is the step that raises if
\* the call comes to run it, 0 when none does
preprocess_image_for_ocr(image, fail_step) ==
    IF fail_step \in 1..Len(steps_run(image)) THEN image
    ELSE enhance(image)

\* an adapter that gives up short outputs
extract_text_with_ocr_config_min(page) ==
    IF page.raises \/ Len(page.text) < MinTextLen THEN <<>> ELSE page.text

\* PDFTextParser.extract_text_with_ocr_config: "" when Tesseract raises
extract_text_with_ocr_config(page) == IF page.raises THEN <<>> ELSE page.text

\* the names of the two page images of page i (1-based) of a PDF of total pages
page_image_names(filename_base, total, i) ==
    IF total = 1
    THEN {filename_base \o Suffix_original_png, filename_base \o Suffix_processed_png}
    ELSE {filename_base \o Infix_original_page \o str(i) \o Ext_png,
          filename_base \o Infix_processed_page \o str(i) \o Ext_png}

RECURSIVE write_files(_, _, _)
write_files(fs, names, src) ==
    IF names = {} THEN fs
    ELSE LET n == CHOOSE x \in names : TRUE
         IN  write_files(write_file(fs, n, src, TRUE), names \ {n}, src)

\* a block that numbers every page 1
page_block_first(i, page_text) ==
    PageMarkerHead \o str(1) \o PageMarkerTail \o strip(page_text) \o <<"\n", "\n">>

\* "--- Page {i} ---\n{page_text}\n\n"
page_block(i, page_text) ==
    PageMarkerHead \o str(i) \o PageMarkerTail \o strip(page_text) \o <<"\n", "\n">>

\* the page loop of extract_text_ocr, from page i on
RECURSIVE ocr_pages(_, _, _, _, _, _)
ocr_pages(pages, i, text, fs, filename_base, src) ==
    IF i > Len(pages) THEN [text |-> text, fs |-> fs]
    ELSE LET page == pages[i]
             fs1 == IF page.save_ok
                    THEN write_files(fs, page_image_names(filename_base, Len(pages), i), src)
                    ELSE fs
             page_text == extract_text_with_ocr_config(page)
             text1 == IF strip(page_text) # <<>>
                      THEN text \o page_block(i, split_join(page_text))
                      ELSE text
         IN  ocr_pages(pages, i + 1, text1, fs1, filename_base, src)

\* a page loop without the adapter's try/except: the exception of one page
\* reaches the except clause of extract_text_ocr, which returns ""
extract_text_ocr_unguarded(src, d, fs, filename_base) ==
    IF ~d.convert_ok \/ (\E i \in 1..Len(d.pages) : d.pages[i].raises)
    THEN [text |-> <<>>, fs |-> fs]
    ELSE LET r == ocr_pages(d.pages, 1, <<>>, fs, filename_base, src)
         IN  [text |-> strip(r.text), fs |-> r.fs]

\* PDFTextParser.extract_text_ocr: the text, and the output directory with the
\* page images in it
extract_text_ocr(src, d, fs, filename_base) ==
    IF ~d.convert_ok THEN [text |-> <<>>, fs |-> fs]
    ELSE LET r == ocr_pages(d.pages, 1, <<>>, fs, filename_base, src)
         IN  [text |-> strip(r.text), fs |-> r.fs]

\* the image_files list of the result
image_files(d, filename_base) ==
    IF ~d.convert_ok THEN {}
    ELSE UNION {page_image_names(filename_base, Len(d.pages), i) : i \in 1..Len(d.pages)}

text_file_name(filename_base) == filename_base \o Ext_txt
info_file_name(filename_base) == filename_base \o Suffix_info_txt

\* the test that rejects a document without meaningful text
no_meaningful_text(extracted_text) ==
    extracted_text = <<>> \/ Len(strip(extracted_text)) < MinTextLen

(***************************************************************************)
(* The text artifact.  Its fixed wording is kept as atoms: a marker, a key  *)
(* or a label of the code is one element of the sequence, since none of    *)
(* them holds a colon, a line break or outer white space; what varies (the  *)
(* file name, the OCR text, digits) and every separator is spelled out      *)
(* character by character.                                                 *)
(***************************************************************************)
Marker_metadata == <<"=== DOCUMENT METADATA ===">>
Marker_end_metadata == <<"=== END METADATA ===">>
Marker_content == <<"=== EXTRACTED TEXT CONTENT ===">>
Marker_end_document == <<"=== END DOCUMENT ===">>
Markers == {Marker_metadata[1], Marker_end_metadata[1], Marker_content[1], Marker_end_document[1]}

Indent == <<" ", " ", " ", " ", " ", " ", " ", " ">>
Colon == <<":">>
Newline == <<"\n">>

Label_header_method == <<"Enhanced OCR (Tesseract with Advanced Preprocessing)">>
Label_parser_version == <<"PDFTextParser v2.0 (Enhanced)">>
Dir_raw_inputs == <<"files/raw_inputs/">>
Dir_parsed == <<"files/parsed">>

\* an ISO timestamp, which holds colons
IsoTimestamp == <<"2", "0", "2", "4", "-", "0", "1", "-", "0", "1", "T", "1", "0", ":", "0", "0", ":", "0", "0">>

\* one "        Key: value" line of the header
header_line(key, value) == Indent \o <<key>> \o Colon \o <<" ">> \o value \o Newline

\* the f-string metadata_header of parse_and_save
metadata_header(original_filename, pdf_path, st_size, extracted_text) ==
    Marker_metadata \o Newline \o Newline
      \o header_line("Original Filename", original_filename)
      \o header_line("Original File Path", pdf_path)
      \o header_line("File Size", str(st_size) \o <<" ", "bytes">>)
      \o header_line("File Modified", IsoTimestamp)
      \o header_line("Processing Timestamp", IsoTimestamp)
      \o header_line("Extraction Method", Label_header_method)
      \o header_line("OCR Configuration", <<"Multiple PSM modes with confidence-based selection">>)
      \o header_line("Image Preprocessing", <<"Gaussian blur, adaptive thresholding, morphological operations, sharpening, contrast/brightness enhancement">>)
      \o header_line("Output Directory", Dir_parsed)
      \o header_line("Processed Images", <<"Saved both original and processed images for each page">>)
      \o header_line("Text Length", str(Len(extracted_text)) \o <<" ", "characters">>)
      \o header_line("Parser Version", Label_parser_version)
      \o Indent \o Marker_end_metadata \o Newline \o Newline
      \o Indent \o Marker_content \o Newline
      \o Indent

\* a file without the start-of-content marker
final_content_unmarked(original_filename, pdf_path, st_size, extracted_text) ==
    Marker_metadata \o Newline \o extracted_text \o Newline \o Newline \o Marker_end_document

\* final_content = metadata_header + extracted_text + "\n\n=== END DOCUMENT ==="
final_content(original_filename, pdf_path, st_size, extracted_text) ==
    metadata_header(original_filename, pdf_path, st_size, extracted_text)
      \o extracted_text \o Newline \o Newline \o Marker_end_document

\* PDFTextParser.parse_and_save(pdf_path, output_dir): the returned dict (or
\* the exception) and the output directory after the call
parse_and_save(pdf_file, d, fs) ==
    LET original_filename == pdf_file
        filename_base == splitext_base(original_filename)
        ocr == extract_text_ocr(pdf_file, d, fs, filename_base)
        extracted_text == ocr.text
        text_file_path == text_file_name(filename_base)
        info_file_path == info_file_name(filename_base)
        fs_text == write_file(ocr.fs, text_file_path, pdf_file, TRUE)
    IN  IF ~d.exists
        THEN [ret |-> [error |-> "File not found", success |-> FALSE], fs |-> fs]
        ELSE IF ~d.makedirs_ok
        THEN [ret |-> Raise("makedirs failed"), fs |-> fs]
        ELSE IF no_meaningful_text(extracted_text)
        THEN [ret |-> [pdf_path |-> pdf_file,
                       filename |-> original_filename,
                       filename_base |-> filename_base,
                       error |-> "No meaningful text extracted via enhanced OCR",
                       success |-> FALSE],
              fs |-> ocr.fs]
        ELSE IF d.text_write # "ok"
        THEN [ret |-> [pdf_path |-> pdf_file,
                       filename |-> original_filename,
                       error |-> "Failed to save text file",
                       success |-> FALSE],
              fs |-> IF d.text_write = "fail_write"
                     THEN write_file(ocr.fs, text_file_path, pdf_file, FALSE)
                     ELSE ocr.fs]
        ELSE [ret |-> [pdf_path |-> pdf_file,
                       filename |-> original_filename,
                       filename_base |-> filename_base,
                       text_file |-> text_file_path,
                       info_file |-> info_file_path,
                       image_files |-> image_files(d, filename_base),
                       extraction_method |-> "Enhanced OCR",
                       text_length |-> Len(extracted_text),
                       success |-> TRUE],
              fs |-> IF d.info_write = "ok"
                     THEN write_file(fs_text, info_file_path, pdf_file, TRUE)
                     ELSE IF d.info_write = "fail_write"
                     THEN write_file(fs_text, info_file_path, pdf_file, FALSE)
                     ELSE fs_text]

(***************************************************************************)
(* The inputs of the parser's specification.                               *)
(***************************************************************************)
T_empty == <<>>
T_blank == <<" ", "\n">>
T_ab == <<"a", "b">>
T_a_b == <<" ", "a", " ", " ", "b", "\n">>
T_invoice == <<"I", "N", "V", "O", "I", "C", "E", " ", "1", "2", "3", "4", "5">>

RawTexts == {T_empty, T_blank, T_ab, T_a_b, T_invoice}

Pages ==
    [text : RawTexts, raises : {FALSE}, save_ok : BOOLEAN]
        \cup [text : {T_invoice}, raises : {TRUE}, save_ok : {TRUE}]

PageSeqs == UNION {[1..n -> Pages] : n \in 0..MaxPages}

Docs ==
    [exists : BOOLEAN, makedirs_ok : BOOLEAN, convert_ok : BOOLEAN, pages : PageSeqs,
     text_write : {"ok", "fail_open", "fail_write"},
     info_write : {"ok", "fail_open", "fail_write"}]

PdfNames == {Name_a_pdf, Name_a_PDF}

\* an output directory that holds a text file of an earlier run
StaleDir == [n \in {Name_old_txt} |-> [writers |-> {}, complete |-> TRUE]]


(***************************************************************************)
(* Stage 2: OpenAIDataExtractor.extract_marine_fuel_data                   *)
(* (tools/pdf_field_extractor.py).                                         *)
(*                                                                         *)
(* The text of a completion is either the JSON serialization of an object  *)
(* (JsonText(obj)) or text that is no JSON (Garbage); json.loads inverts    *)
(* the serialization and fails on everything else.                         *)
(***************************************************************************)
max_chars == 12000

FieldNames ==
    {"RECEIVING_VESSEL_NAME", "DELIVERING_VESSEL_NAME", "IMO_NUMBER", "PORT",
     "DELIVERY_DATE", "SUPPLIER_NAME", "SUPPLIER_ADDRESS", "SUPPLIER_PHONE",
     "DELIVERY_METHOD", "DELIVERY_LOCATION", "PRODUCT_NAME", "QUANTITY_METRIC_TONS",
     "DENSITY_15C", "SULPHUR_CONTENT", "FLASH_POINT", "TIME_OF_COMMENCEMENT",
     "TIME_COMPLETED"}

JsonText(obj) == [json |-> obj]
Garbage == [garbage |-> "Sorry, I cannot read this document"]
EmptyString == [empty |-> TRUE]
NoContent == [none |-> TRUE]
EmptyObj == [k \in {} |-> "NA"]

\* json.loads(text): the value, or JSONDecodeError
json_loads(text) ==
    IF "json" \in DOMAIN text THEN [ok |-> TRUE, value |-> text.json]
    ELSE [ok |-> FALSE, value |-> None]

\* the fixed parts of the prompt, before and after the embedded document text
PromptHead == <<"[instructions and the 17-field schema] ## Document Text to Analyze:">>
PromptTail == <<"Now please analyze the provided OCRed document text and extract the requested information.">>

\* OpenAIDataExtractor.get_extraction_prompt
get_extraction_prompt(document_text) == PromptHead \o document_text \o PromptTail

\* the truncation of the local document_text
truncate(document_text) ==
    IF Len(document_text) > max_chars
    THEN SubSeq(document_text, 1, max_chars) \o TruncationMarker
    ELSE document_text

\* response.choices[0].message.content or "{}"
result_text_of(content) ==
    IF content = NoContent \/ content = EmptyString THEN JsonText(EmptyObj) ELSE content

\* the inner try: json.loads of the completion text
parse_response(content) ==
    LET result_text == result_text_of(content)
        parsed == json_loads(result_text)
    IN  IF parsed.ok THEN parsed.value
        ELSE [error |-> "JSON parsing failed", raw_response |-> result_text]

\* OpenAIDataExtractor.extract_marine_fuel_data: what the service is sent and
\* the returned dict
extract_marine_fuel_data(document_text, service) ==
    LET prompt == get_extraction_prompt(document_text)
        local == truncate(document_text)
    IN  [sent |-> prompt,
         ret |-> IF service.kind = "raise" THEN [error |-> service.msg]
                 ELSE parse_response(service.content)]

(***************************************************************************)
(* The inputs of the extractor's specification.                            *)
(***************************************************************************)
MaxOver == 2       \* how far beyond max_chars the longest document text goes

\* a document text of n characters whose characters tell their position
TextOfLen(n) == [i \in 1..n |-> Digit[(i % 10) + 1]]

TextLens == {0, 1, max_chars - 1, max_chars} \cup {max_chars + k : k \in 1..MaxOver}

FullNA == [k \in FieldNames |-> "NA"]
FullValues == [k \in FieldNames |-> IF k = "PORT" THEN "SINGAPORE" ELSE "NA"]
PartialObj == [k \in FieldNames \ {"IMO_NUMBER"} |-> "NA"]
ErrorObj == [error |-> "document unreadable"]

Services ==
    {[kind |-> "raise", msg |-> "Connection error."],
     [kind |-> "raise", msg |-> "list index out of range"]}
    \cup [kind : {"content"},
          content : {NoContent, EmptyString, Garbage, JsonText(FullNA), JsonText(FullValues),
                     JsonText(PartialObj), JsonText(ErrorObj), JsonText(EmptyObj)}]

ParseIdle ==
    /\ p_pc = "idle" /\ p_ctor = None /\ p_pdf = None /\ p_doc = None
    /\ p_fs0 = EmptyDir /\ p_fs = EmptyDir /\ p_result = None
    /\ p_text = <<>>

PoolIdle == k_pc = "idle" /\ k_stage = 0 /\ k_items = <<>> /\ k_pool = None

CoordinatorIdle ==
    /\ m_pc = "idle" /\ m_exit = "idle"
    /\ environment = None
    /\ raw_dir = None /\ parsed_dir = EmptyDir /\ extract_dir = EmptyDir
    /\ pdf_files = <<>> /\ parsing_results = <<>>
    /\ text_files = <<>> /\ extraction_results = <<>>
    /\ pool = None
    /\ successful_parses = 0 /\ failed_parses = 0
    /\ successful_extractions = 0 /\ failed_extractions = 0
    /\ printed = <<>> /\ report_log = <<>>
    /\ crashed = {}

MainIdle == CoordinatorIdle /\ PoolIdle

ExtractIdle ==
    /\ e_pc = "idle" /\ e_text = None /\ e_local = None /\ e_service = None
    /\ e_prompt = None /\ e_sent = None /\ e_content = None /\ e_result = None

ProcessIdle ==
    /\ f_pc = "idle" /\ f_file = None /\ f_src = None /\ f_env = None
    /\ f_written = <<>>
    /\ f_fs = EmptyDir /\ f_text = None /\ f_result = None

PageIdle ==
    /\ g_pc = "idle" /\ g_image = None /\ g_env = None
    /\ g_processed = None /\ g_text = None

\* PDFTextParser.__init__: returns, or raises RuntimeError
PDFTextParser_init(ctor) ==
    CASE ctor = "no_poppler" -> Raise("Poppler binaries are required for PDF processing")
      [] ctor = "no_tesseract" -> Raise("Tesseract OCR is required for processing scanned documents")
      [] OTHER -> [constructed |-> TRUE]

\* a PDF without pages in an environment where nothing else fails
PlainDoc == [exists |-> TRUE, makedirs_ok |-> TRUE, convert_ok |-> TRUE, pages |-> <<>>,
             text_write |-> "ok", info_write |-> "ok"]

InitParse ==
    /\ p_pc = "new"
    /\ p_ctor \in {"ok", "no_poppler", "no_tesseract"}
    /\ p_pdf \in PdfNames
    /\ p_doc \in Docs
    /\ p_ctor # "ok" => p_doc = PlainDoc
    /\ p_fs0 \in {EmptyDir, StaleDir}
    /\ p_fs = p_fs0
    /\ p_result = None
    /\ p_text = <<>>
    /\ ExtractIdle
    /\ ProcessIdle
    /\ PageIdle
    /\ MainIdle

\* parser = PDFTextParser()
ConstructParser ==
    /\ p_pc = "new"
    /\ LET r == PDFTextParser_init(p_ctor)
       IN  IF IsRaise(r)
           THEN p_pc' = "failed_construction" /\ p_result' = r
           ELSE p_pc' = "call" /\ p_result' = p_result
    /\ UNCHANGED <<p_ctor, p_pdf, p_doc, p_fs0, p_fs, p_text,
                   extractVars, mainVars, poolVars, processVars, pageVars>>

\* one call of parse_and_save, from entry to return
ParseAndSave ==
    /\ p_pc = "call"
    /\ LET r == parse_and_save(p_pdf, p_doc, p_fs)
       IN  /\ p_result' = r.ret
           /\ p_fs' = r.fs
    /\ p_text' = IF p_doc.exists /\ p_doc.makedirs_ok
                 THEN extract_text_ocr(p_pdf, p_doc, p_fs, splitext_base(p_pdf)).text
                 ELSE p_text
    /\ p_pc' = "returned"
    /\ UNCHANGED <<p_ctor, p_pdf, p_doc, p_fs0, extractVars, mainVars, poolVars, processVars, pageVars>>

NextParse == ConstructParser \/ ParseAndSave

SpecParse == InitParse /\ [][NextParse]_vars

InitExtract ==
    /\ e_pc = "call"
    /\ e_text \in {TextOfLen(n) : n \in TextLens}
    /\ e_local = e_text
    /\ e_service \in Services
    /\ e_prompt = None /\ e_sent = None /\ e_content = None /\ e_result = None
    /\ ParseIdle
    /\ ProcessIdle
    /\ PageIdle
    /\ MainIdle

\* prompt = self.get_extraction_prompt(document_text)
BuildPrompt ==
    /\ e_pc = "call"
    /\ e_prompt' = get_extraction_prompt(e_local)
    /\ e_pc' = "prompted"
    /\ UNCHANGED <<e_text, e_local, e_service, e_sent, e_content, e_result, parseVars, mainVars, poolVars, processVars, pageVars>>

\* if len(document_text) > max_chars: document_text = document_text[:max_chars] + ...
Truncate ==
    /\ e_pc = "prompted"
    /\ e_local' = truncate(e_local)
    /\ e_pc' = "truncated"
    /\ UNCHANGED <<e_text, e_service, e_prompt, e_sent, e_content, e_result, parseVars, mainVars, poolVars, processVars, pageVars>>

\* self.client.chat.completions.create(... {"role": "user", "content": prompt} ...)
CallService ==
    /\ e_pc = "truncated"
    /\ e_sent' = e_prompt
    /\ IF e_service.kind = "raise"
       THEN /\ e_result' = [error |-> e_service.msg]
            /\ e_content' = e_content
            /\ e_pc' = "returned"
       ELSE /\ e_content' = e_service.content
            /\ e_result' = e_result
            /\ e_pc' = "answered"
    /\ UNCHANGED <<e_text, e_local, e_service, e_prompt, parseVars, mainVars, poolVars, processVars, pageVars>>

\* result_text = content or "{}"; json.loads(result_text)
ParseResponse ==
    /\ e_pc = "answered"
    /\ e_result' = parse_response(e_content)
    /\ e_pc' = "returned"
    /\ UNCHANGED <<e_text, e_local, e_service, e_prompt, e_sent, e_content, parseVars, mainVars, poolVars, processVars, pageVars>>

NextExtract == BuildPrompt \/ Truncate \/ CallService \/ ParseResponse

SpecExtract == InitExtract /\ [][NextExtract]_vars

(***************************************************************************)
(* Claims about parse_and_save (checked under SpecParse).                  *)
(***************************************************************************)
RECURSIVE SumLen(_)
SumLen(texts) == IF texts = <<>> THEN 0 ELSE Len(Head(texts)) + SumLen(Tail(texts))

\* the number of characters of trimmed OCR text the pages of d yield together
TrimmedOcrChars(d) ==
    IF ~d.convert_ok THEN 0
    ELSE SumLen([i \in 1..Len(d.pages) |-> strip(extract_text_with_ocr_config(d.pages[i]))])

ParseReturned == p_pc = "returned" /\ ~IsRaise(p_result)

\* C3: a PDF whose pages together yield fewer than 10 characters of trimmed OCR
\* text makes parse_and_save return the failure record with the "no meaningful
\* text" reason, never a success record.
C3_ShortTextIsRejected ==
    (p_pc = "returned" /\ p_doc.exists /\ p_doc.makedirs_ok
        /\ TrimmedOcrChars(p_doc) < MinTextLen)
    => /\ ~IsRaise(p_result)
       /\ p_result.success = FALSE
       /\ p_result.error = "No meaningful text extracted via enhanced OCR"

\* C4: whenever parse_and_save returns a failure record, the set of files in the
\* output directory is the same as before the call.
C4_FailureWritesNoFile ==
    (ParseReturned /\ p_result.success = FALSE) => DOMAIN p_fs = DOMAIN p_fs0

\* the file `name` is in the output directory, completely written by this call
WrittenByCall(name) ==
    /\ name \in DOMAIN p_fs
    /\ p_pdf \in p_fs[name].writers
    /\ p_fs[name].complete

\* C5: whenever parse_and_save returns success = True, text_length is the length
\* of the concatenated page text, and the artifacts <base>.txt and
\* <base>_info.txt have both been written and exist in the output directory.
C5_SuccessWritesBothArtifacts ==
    (ParseReturned /\ p_result.success = TRUE)
    => LET base == splitext_base(p_pdf)
       IN  /\ p_result.text_length
                = Len(extract_text_ocr(p_pdf, p_doc, p_fs0, base).text)
           /\ WrittenByCall(base \o Ext_txt)
           /\ WrittenByCall(base \o Suffix_info_txt)

(***************************************************************************)
(* Claims about extract_marine_fuel_data (checked under SpecExtract).      *)
(***************************************************************************)
\* C6: whatever the text and whatever the completion service does, the returned
\* object holds all 17 named fields, or it is a failure object that holds both
\* the key error and the key raw_response.
C6_FieldsOrFailureObject ==
    e_pc = "returned"
    => \/ FieldNames \subseteq DOMAIN e_result
       \/ {"error", "raw_response"} \subseteq DOMAIN e_result

\* C7: the prompt sent to the completion service embeds the first 12,000
\* characters of a longer document text followed by the truncation marker, and
\* the whole text without marker when the text is not longer.
C7_SentPromptIsTruncated ==
    e_pc \in {"answered", "returned"}
    => e_sent = PromptHead
                  \o (IF Len(e_text) > max_chars
                      THEN SubSeq(e_text, 1, max_chars) \o TruncationMarker
                      ELSE e_text)
                  \o PromptTail

(***************************************************************************)
(* main (main.py): the coordinator, its two worker pools and the wrappers  *)
(* the workers run.                                                        *)
(***************************************************************************)
MAX_PROCESSES == 36

Min(a, b) == IF a <= b THEN a ELSE b

\* a result the pool has not received yet
Pending == [pending |-> TRUE]
IsPending(r) == "pending" \in DOMAIN r

\* os.listdir: the lists that hold each name of the set S once, in any order
Listings(S) ==
    {f \in [1..Cardinality(S) -> S] : \A i, j \in DOMAIN f : i # j => f[i] # f[j]}

\* f.lower().endswith('.pdf')
is_pdf(f) == endswith(lower(f), Ext_pdf)

\* f.endswith('.txt') and not f.endswith('_info.txt')
is_text_file(f) == endswith(f, Ext_txt) /\ ~endswith(f, Suffix_info_txt)

\* s.replace(old, '')
RECURSIVE remove_all(_, _)
remove_all(s, old) ==
    IF Len(s) < Len(old) THEN s
    ELSE IF SubSeq(s, 1, Len(old)) = old
         THEN remove_all(SubSeq(s, Len(old) + 1, Len(s)), old)
         ELSE <<Head(s)>> \o remove_all(Tail(s), old)

\* the wrapper without its try/except: what leaves the constructor or
\* parse_and_save leaves the worker
parse_single_pdf_wrapper_unguarded(pdf_file, ctor_ok, d, fs) ==
    IF ~ctor_ok
    THEN [ret |-> Raise("Poppler binaries are required for PDF processing"), fs |-> fs]
    ELSE parse_and_save(pdf_file, d, fs)

\* parse_single_pdf_wrapper: the worker builds its own parser (ctor_ok: the
\* constructor finds Poppler and Tesseract) and converts any exception into a
\* failure record
parse_single_pdf_wrapper(pdf_file, ctor_ok, d, fs) ==
    LET r == parse_and_save(pdf_file, d, fs)
        failure(msg) == [pdf_path |-> pdf_file, filename |-> pdf_file,
                         error |-> msg, success |-> FALSE]
    IN  IF ~ctor_ok
        THEN [ret |-> failure("Poppler binaries are required for PDF processing"), fs |-> fs]
        ELSE IF IsRaise(r.ret) THEN [ret |-> failure(r.ret.exception), fs |-> r.fs]
        ELSE r

\* line.startswith('===')
startswith_marker(line) ==
    /\ line # <<>>
    /\ \/ Head(line) \in Markers
       \/ (Len(line) >= 3 /\ SubSeq(line, 1, 3) = <<"=", "=", "=">>)

EmptyMetadata == [k \in {} |-> <<>>]

\* the loop over the lines of the metadata section: a line with a colon that
\* is no marker line gives metadata[key.strip()] = value.strip()
RECURSIVE parse_metadata_lines(_, _)
parse_metadata_lines(lines, metadata) ==
    IF lines = <<>> THEN metadata
    ELSE LET line == Head(lines)
             kv == split_1(line, Colon)
         IN  parse_metadata_lines(Tail(lines),
                 IF contains(line, Colon) /\ ~startswith_marker(line)
                 THEN (strip(kv[1]) :> strip(kv[2])) @@ metadata
                 ELSE metadata)

\* the header with the content marker missing taken as an empty document
read_header_strict(full_content, header_raises) ==
    IF ~contains(full_content, Marker_metadata)
    THEN [metadata |-> EmptyMetadata, document_text |-> full_content]
    ELSE LET parts == split(full_content, Marker_content)
         IN  IF Len(parts) >= 2 /\ ~header_raises
             THEN [metadata |-> parse_metadata_lines(split(parts[1], Newline), EmptyMetadata),
                   document_text |-> strip(remove_all(parts[2], Marker_end_document))]
             ELSE [metadata |-> EmptyMetadata, document_text |-> <<>>]

\* process_parsed_text_file, lines 212-237: the metadata and the document text
\* of a file's content.  header_raises: the parsing of the header raises (at
\* the split, before a key is stored).
read_header(full_content, header_raises) ==
    IF ~contains(full_content, Marker_metadata) \/ header_raises
    THEN [metadata |-> EmptyMetadata, document_text |-> full_content]
    ELSE LET parts == split(full_content, Marker_content)
         IN  IF Len(parts) >= 2
             THEN [metadata |-> parse_metadata_lines(split(parts[1], Newline), EmptyMetadata),
                   document_text |-> strip(remove_all(parts[2], Marker_end_document))]
             ELSE [metadata |-> EmptyMetadata, document_text |-> full_content]

\* metadata.get(key, default)
metadata_get(metadata, key, default) ==
    IF <<key>> \in DOMAIN metadata THEN metadata[<<key>>] ELSE default

\* the document_metadata block of the record
document_metadata(metadata, text_file, filename_base) ==
    [original_filename |-> metadata_get(metadata, "Original Filename", <<>>),
     original_file_path |-> metadata_get(metadata, "Original File Path", <<>>),
     file_size |-> metadata_get(metadata, "File Size", <<>>),
     file_modified |-> metadata_get(metadata, "File Modified", <<>>),
     extraction_timestamp |-> metadata_get(metadata, "Processing Timestamp", <<>>),
     extraction_method |-> metadata_get(metadata, "Extraction Method", <<"OCR">>),
     parser_version |-> metadata_get(metadata, "Parser Version", <<>>),
     text_length |-> metadata_get(metadata, "Text Length", <<>>),
     processed_by |-> "OpenAIDataExtractor",
     source_text_file |-> text_file,
     filename_base |-> filename_base]

\* the names the input directory of a run is filled from
NameUniverse == {Name_a_pdf, Name_a_PDF, Name_b_pdf, Name_a_info_pdf, Name_n_txt}

\* the text the one page of a well-scanned document yields
GoodExtractedText == strip(page_block(1, T_invoice))

\* the text artifact parse_and_save writes for each of these names, and what
\* read_header makes of it (each computed once)
WrittenContent ==
    [pdf_file \in NameUniverse |->
        final_content(pdf_file, Dir_raw_inputs \o pdf_file, 1024, GoodExtractedText)]
WrittenHeader ==
    [content \in {WrittenContent[f] : f \in NameUniverse} |-> read_header(content, FALSE)]

\* a success test that ignores the extraction result
success_always(extracted_data) == TRUE

\* "error" not in extracted_data
success_of(extracted_data) == "error" \notin DOMAIN extracted_data

\* OpenAIDataExtractor.process_parsed_text_file.  w is what the environment does:
\*   exists         os.path.exists(text_file_path)
\*   read_ok        the output directory can be made and the text file read
\*   content        the content of the text file
\*   header_raises  the parsing of the header raises
\*   service        what the completion service does (see Services)
\*   write          "ok" | "fail_open" (no file) | "fail_write" (partial file)
\* Returned: the dict, the output directory after the call, and the document
\* text handed to extract_marine_fuel_data (None when the call is not reached).
process_parsed_text_file(text_file, w, fs) ==
    LET header == IF ~w.header_raises /\ w.content \in DOMAIN WrittenHeader
                  THEN WrittenHeader[w.content]
                  ELSE read_header(w.content, w.header_raises)
        document_text == header.document_text
        extracted_data == extract_marine_fuel_data(document_text, w.service).ret
        filename_base == splitext_base(text_file)
        enhanced_extracted_data ==
            [document_metadata |-> document_metadata(header.metadata, text_file, filename_base),
             extracted_fields |-> extracted_data]
        output_file == filename_base \o Suffix_json
        failure(msg) == [text_file |-> text_file, error |-> msg, success |-> FALSE]
    IN  IF ~w.exists
        THEN [ret |-> [error |-> "Text file not found"], fs |-> fs, document_text |-> None]
        ELSE IF ~w.read_ok
        THEN [ret |-> failure("cannot read the text file"), fs |-> fs, document_text |-> None]
        ELSE IF w.write # "ok"
        THEN [ret |-> failure("cannot write the JSON file"),
              fs |-> IF w.write = "fail_write"
                     THEN write_file(fs, output_file, text_file, FALSE) ELSE fs,
              document_text |-> document_text]
        ELSE [ret |-> [text_file |-> text_file,
                       filename_base |-> filename_base,
                       document_length |-> Len(document_text),
                       extracted_data |-> enhanced_extracted_data,
                       success |-> success_of(extracted_data),
                       output_file |-> output_file],
              fs |-> write_file(fs, output_file, text_file, TRUE),
              document_text |-> document_text]

\* extract_single_text_wrapper: the worker builds its own extraction client
\* (ctor_ok) and converts any exception into a failure record
extract_single_text_wrapper(text_file, ctor_ok, w, fs) ==
    IF ~ctor_ok
    THEN [ret |-> [text_file |-> text_file,
                   filename_base |-> remove_all(text_file, Ext_txt),
                   error |-> "Azure OpenAI configuration missing",
                   success |-> FALSE],
          fs |-> fs, document_text |-> None]
    ELSE process_parsed_text_file(text_file, w, fs)

\* a map that hands its results back as soon as one of them is in
\* imap_unordered: a result takes the first free position, in order of arrival
map_result_unordered(results, i, r) ==
    LET k == CHOOSE x \in DOMAIN results :
                 IsPending(results[x]) /\ \A y \in 1..(x - 1) : ~IsPending(results[y])
    IN  [results EXCEPT ![k] = r]

\* pool.imap / pool.map: the result of item i takes position i of the list
map_result(results, i, r) == [results EXCEPT ![i] = r]

map_returned_early(results) == \E i \in DOMAIN results : ~IsPending(results[i])

\* pool.imap / pool.map have handed back every result
map_returned(results) == \A i \in DOMAIN results : ~IsPending(results[i])

\* a pool with one worker per item
new_pool_per_item(stage, items) ==
    [stage |-> stage, processes |-> Len(items), next |-> 1, inflight |-> {}]

\* Pool(processes=min(MAX_PROCESSES, len(items)))
new_pool(stage, items) ==
    [stage |-> stage, processes |-> Min(MAX_PROCESSES, Len(items)),
     next |-> 1, inflight |-> {}]

\* the loop over parsing_results (main.py 139-145), from position i on: the two
\* counters, the lines printed, and whether a missing key raised KeyError
RECURSIVE count_parsing(_, _, _, _, _)
count_parsing(results, i, succ, fail, lines) ==
    IF i > Len(results)
    THEN [raised |-> FALSE, succ |-> succ, fail |-> fail, lines |-> lines]
    ELSE LET result == results[i]
             stop == [raised |-> TRUE, succ |-> succ, fail |-> fail, lines |-> lines]
         IN  IF get_success(result)
             THEN IF {"filename", "text_length"} \subseteq DOMAIN result
                  THEN count_parsing(results, i + 1, succ + 1, fail,
                           Append(lines, [filename |-> result.filename,
                                          chars |-> result.text_length]))
                  ELSE stop
             ELSE IF "filename" \in DOMAIN result
                  THEN count_parsing(results, i + 1, succ, fail + 1,
                           Append(lines, [filename |-> result.filename,
                                          error |-> dict_get(result, "error", "Unknown error")]))
                  ELSE stop

\* a loop that a failed item makes raise
count_extraction_strict(results, i, succ, fail) ==
    [raised |-> \E k \in DOMAIN results : ~get_success(results[k]),
     succ |-> succ, fail |-> fail]

\* the loop over extraction_results (main.py 191-198)
RECURSIVE count_extraction(_, _, _, _)
count_extraction(results, i, succ, fail) ==
    IF i > Len(results) THEN [raised |-> FALSE, succ |-> succ, fail |-> fail]
    ELSE LET result == results[i]
         IN  IF get_success(result)
             THEN IF "filename_base" \in DOMAIN result
                  THEN count_extraction(results, i + 1, succ + 1, fail)
                  ELSE [raised |-> TRUE, succ |-> succ, fail |-> fail]
             ELSE count_extraction(results, i + 1, succ, fail + 1)

(***************************************************************************)
(* The inputs of a run of main.                                            *)
(***************************************************************************)
\* one listing for each content of the input directory
InputListings ==
    {CHOOSE l \in Listings(S) : TRUE : S \in {T \in SUBSET NameUniverse : Cardinality(T) <= MaxFiles}}

OnePage(t) == <<[text |-> t, raises |-> FALSE, save_ok |-> TRUE]>>

GoodDoc == [exists |-> TRUE, makedirs_ok |-> TRUE, convert_ok |-> TRUE,
            pages |-> OnePage(T_invoice), text_write |-> "ok", info_write |-> "ok"]

\* what can happen to one document in Stage 1
ParseScenarios ==
    {GoodDoc,
     [GoodDoc EXCEPT !.exists = FALSE],
     [GoodDoc EXCEPT !.pages = OnePage(T_blank)],
     [GoodDoc EXCEPT !.text_write = "fail_open"],
     [GoodDoc EXCEPT !.info_write = "fail_open"],
     [GoodDoc EXCEPT !.makedirs_ok = FALSE]}

\* a text file of an earlier run, without header
StaleContent == T_invoice

\* the content of the file `name` of the parsed directory
content_of(fs, name) ==
    IF name \notin DOMAIN fs \/ fs[name].writers = {} THEN StaleContent
    ELSE WrittenContent[CHOOSE f \in fs[name].writers : TRUE]

GoodText == [exists |-> TRUE, read_ok |-> TRUE, content |-> StaleContent,
             header_raises |-> FALSE,
             service |-> [kind |-> "content", content |-> JsonText(FullNA)],
             write |-> "ok"]

\* what can happen to one text file in Stage 2
ExtractScenarios ==
    {GoodText,
     [GoodText EXCEPT !.service = [kind |-> "raise", msg |-> "Connection error."]],
     [GoodText EXCEPT !.exists = FALSE],
     [GoodText EXCEPT !.write = "fail_open"]}

(***************************************************************************)
(* One page: preprocess_image_for_ocr, then extract_text_with_ocr_config   *)
(* (the body of the page loop of extract_text_ocr without the image dump). *)
(* Tesseract is an environment that can be asked with any page             *)
(* segmentation mode; the code asks with --psm 6 only.                     *)
(***************************************************************************)
Psm_code == "--psm 6"
CodeConfigs == {Psm_code}
OcrConfigs == {"--psm 6", "--psm 7", "--psm 11"}

\* what Tesseract yields for one configuration: the text, the mean confidence
\* of its tokens, or an exception
OcrOutcomes ==
    {[text |-> T_invoice, conf |-> 90, raises |-> FALSE],
     [text |-> T_ab, conf |-> 40, raises |-> FALSE],
     [text |-> T_empty, conf |-> 0, raises |-> FALSE],
     [text |-> T_blank, conf |-> 0, raises |-> FALSE],
     [text |-> T_empty, conf |-> 0, raises |-> TRUE]}

OtherOutcomes == {o \in OcrOutcomes : o.text # T_blank}

RenderedPages == [width : Sizes, height : {7, 281, 300}, steps : {<<>>}]

InitPage ==
    /\ g_pc = "call"
    /\ g_image \in RenderedPages
    /\ g_env \in [fail_step : 0..Len(PipelineSteps),
                  ocr : {f \in [OcrConfigs -> OcrOutcomes] :
                            \A c \in OcrConfigs \ {Psm_code} : f[c] \in OtherOutcomes}]
    /\ g_processed = None
    /\ g_text = None
    /\ ParseIdle /\ ExtractIdle /\ ProcessIdle /\ MainIdle

\* processed_image = self.preprocess_image_for_ocr(image)
PreprocessPage ==
    /\ g_pc = "call"
    /\ g_processed' = preprocess_image_for_ocr(g_image, g_env.fail_step)
    /\ g_pc' = "preprocessed"
    /\ UNCHANGED <<g_image, g_env, g_text, parseVars, extractVars, processVars, mainVars, poolVars>>

\* page_text = self.extract_text_with_ocr_config(processed_image)
OcrPage ==
    /\ g_pc = "preprocessed"
    /\ g_text' = extract_text_with_ocr_config(g_env.ocr[Psm_code])
    /\ g_pc' = "returned"
    /\ UNCHANGED <<g_image, g_env, g_processed, parseVars, extractVars, processVars, mainVars, poolVars>>

NextPage == PreprocessPage \/ OcrPage

SpecPage == InitPage /\ [][NextPage]_vars

(***************************************************************************)
(* One call of process_parsed_text_file.                                   *)
(***************************************************************************)
Name_sp_a_pdf == <<" ", "a", ".", "p", "d", "f">>

\* the content parse_and_save writes into the text artifact of a document
text_artifact(pdf_file, d) ==
    final_content(pdf_file, Dir_raw_inputs \o pdf_file, 1024,
                  extract_text_ocr(pdf_file, d, EmptyDir, splitext_base(pdf_file)).text)

\* documents that parse_and_save turns into artifacts
ArtifactDocs ==
    {GoodDoc,
     [GoodDoc EXCEPT !.pages = OnePage(T_ab)],
     [GoodDoc EXCEPT !.pages = OnePage(T_invoice) \o OnePage(T_a_b)]}

\* the file is no artifact of Stage 1
NoSource == [none |-> TRUE]
IsArtifact(src) == "none" \notin DOMAIN src

\* contents without header, with the header marker but no start of content,
\* and with a start of content but no header marker
Content_header_only ==
    Marker_metadata \o Newline \o header_line("Original Filename", Name_a_pdf) \o T_invoice
Content_no_header == T_invoice \o Newline \o Marker_content \o Newline \o T_ab
OtherContents == {T_invoice, T_empty, Content_header_only, Content_no_header}

ProcessInputs ==
    {[file |-> text_file_name(splitext_base(pdf_file)),
      src |-> parse_and_save(pdf_file, d, EmptyDir).ret,
      written |-> extract_text_ocr(pdf_file, d, EmptyDir, splitext_base(pdf_file)).text,
      content |-> text_artifact(pdf_file, d)] :
        pdf_file \in {Name_a_pdf, Name_sp_a_pdf}, d \in ArtifactDocs}
    \cup {[file |-> Name_old_txt, src |-> NoSource, written |-> <<>>, content |-> c] :
                c \in OtherContents}

ProcessServices ==
    {[kind |-> "raise", msg |-> "Connection error."]}
    \cup [kind : {"content"},
          content : {NoContent, Garbage, JsonText(FullNA), JsonText(ErrorObj)}]

InitProcess ==
    /\ f_pc = "call"
    /\ \E c \in ProcessInputs :
         /\ f_file = c.file
         /\ f_src = c.src
         /\ f_written = c.written
         /\ f_env \in [exists : BOOLEAN, read_ok : BOOLEAN, content : {c.content},
                       header_raises : BOOLEAN, service : ProcessServices,
                       write : {"ok", "fail_open", "fail_write"}]
    /\ f_fs = EmptyDir
    /\ f_text = None
    /\ f_result = None
    /\ ParseIdle /\ ExtractIdle /\ PageIdle /\ MainIdle

\* one call of process_parsed_text_file, from entry to return
ProcessFile ==
    /\ f_pc = "call"
    /\ LET r == process_parsed_text_file(f_file, f_env, f_fs)
       IN  /\ f_result' = r.ret
           /\ f_fs' = r.fs
           /\ f_text' = r.document_text
    /\ f_pc' = "returned"
    /\ UNCHANGED <<f_file, f_src, f_written, f_env, parseVars, extractVars, mainVars, poolVars, pageVars>>

NextProcess == ProcessFile

SpecProcess == InitProcess /\ [][NextProcess]_vars

\* whether a constructor returns: never when what it looks for is missing;
\* when it is there, the constructor can still raise in a worker
constructor_outcomes(installed) == IF installed THEN BOOLEAN ELSE {FALSE}

\* test_azure_openai_connection: True when OpenAIDataExtractor() returns
test_azure_openai_connection(client) == client

Init ==
    /\ m_pc = "start" /\ m_exit = "running"
    /\ environment \in [toolchain : BOOLEAN, client : BOOLEAN]
    /\ raw_dir \in [exists : {TRUE}, names : InputListings]
                     \cup {[exists |-> FALSE, names |-> <<>>]}
    /\ parsed_dir \in {EmptyDir, StaleDir}
    /\ extract_dir = EmptyDir
    /\ pdf_files = <<>> /\ parsing_results = <<>>
    /\ text_files = <<>> /\ extraction_results = <<>>
    /\ pool = new_pool(0, <<>>)
    /\ successful_parses = 0 /\ failed_parses = 0
    /\ successful_extractions = 0 /\ failed_extractions = 0
    /\ printed = <<>> /\ report_log = <<>>
    /\ crashed = {}
    /\ ParseIdle /\ ExtractIdle /\ ProcessIdle /\ PageIdle /\ PoolIdle

Return(why) == m_pc' = "done" /\ m_exit' = why

\* main.py 86-96: the directory check and the listing of the PDF files
ListPdfFiles ==
    /\ m_pc = "start"
    /\ IF ~raw_dir.exists
       THEN Return("no_pdf_directory") /\ pdf_files' = pdf_files
       ELSE LET files == SelectSeq(raw_dir.names, is_pdf)
            IN  /\ pdf_files' = files
                /\ IF files = <<>> THEN Return("no_pdf_files")
                   ELSE m_pc' = "test_connection" /\ m_exit' = m_exit
    /\ UNCHANGED <<raw_dir, parsed_dir, extract_dir, parsing_results, text_files,
                   extraction_results, pool, successful_parses, failed_parses,
                   successful_extractions, failed_extractions, printed, report_log,
                   parseVars, extractVars, processVars, pageVars>>
    /\ UNCHANGED <<crashed, environment, poolVars>>

\* main.py 110-117 and 128-133: the connection test, then the Stage-1 pool
TestConnection ==
    /\ m_pc = "test_connection"
    /\ \E ok \in {test_azure_openai_connection(environment.client)} :
         IF ok
         THEN /\ m_pc' = "stage1" /\ m_exit' = m_exit
              /\ pool' = new_pool(1, pdf_files)
              /\ parsing_results' = [i \in 1..Len(pdf_files) |-> Pending]
         ELSE /\ Return("connection_failed")
              /\ UNCHANGED <<pool, parsing_results>>
    /\ UNCHANGED <<raw_dir, parsed_dir, extract_dir, pdf_files, text_files,
                   extraction_results, successful_parses, failed_parses,
                   successful_extractions, failed_extractions, printed, report_log,
                   parseVars, extractVars, processVars, pageVars>>
    /\ UNCHANGED <<crashed, environment, poolVars>>

\* an idle worker of the pool takes the next item of the input list
TakeItem ==
    /\ m_pc \in {"stage1", "stage2"}
    /\ pool.next <= (IF m_pc = "stage1" THEN Len(pdf_files) ELSE Len(text_files))
    /\ Cardinality(pool.inflight) < pool.processes
    /\ pool' = [pool EXCEPT !.next = @ + 1, !.inflight = @ \cup {pool.next}]
    /\ UNCHANGED <<m_pc, m_exit, raw_dir, parsed_dir, extract_dir, pdf_files,
                   parsing_results, text_files, extraction_results, successful_parses,
                   failed_parses, successful_extractions, failed_extractions, printed,
                   report_log, parseVars, extractVars, processVars, pageVars>>
    /\ UNCHANGED <<crashed, environment, poolVars>>

\* a Stage-1 worker runs parse_single_pdf_wrapper on its item and hands the
\* result back
ParseItem(i) ==
    /\ m_pc = "stage1"
    /\ i \in pool.inflight
    /\ \E d \in ParseScenarios, ctor_ok \in constructor_outcomes(environment.toolchain) :
         /\ ctor_ok \/ d = GoodDoc
         /\ LET r == parse_single_pdf_wrapper(pdf_files[i], ctor_ok, d, parsed_dir)
            IN  /\ parsing_results' = map_result(parsing_results, i, r.ret)
                /\ parsed_dir' = r.fs
         /\ crashed' = IF ~ctor_ok \/ IsRaise(parse_and_save(pdf_files[i], d, parsed_dir).ret)
                       THEN crashed \cup {<<1, i>>} ELSE crashed
    /\ pool' = [pool EXCEPT !.inflight = @ \ {i}]
    /\ UNCHANGED <<poolVars, m_pc, m_exit, environment, raw_dir, extract_dir, pdf_files, text_files,
                   extraction_results, successful_parses, failed_parses,
                   successful_extractions, failed_extractions, printed, report_log,
                   parseVars, extractVars, processVars, pageVars>>

\* a coordinator that goes on to Stage 2 in every case
no_pdf_parsed_ignored(succ) == FALSE

\* if successful_parses == 0: ... return
no_pdf_parsed(succ) == succ = 0

\* main.py 134-159: the pool has returned every result; main counts and prints
\* them, and decides whether Stage 2 runs
CountParsing ==
    /\ m_pc = "stage1"
    /\ map_returned(parsing_results)
    /\ LET c == count_parsing(parsing_results, 1, 0, 0, <<>>)
       IN  /\ successful_parses' = c.succ
           /\ failed_parses' = c.fail
           /\ printed' = c.lines
           /\ IF c.raised THEN Return("error_during_pdf_parsing")
              ELSE IF no_pdf_parsed(c.succ) THEN Return("no_pdf_parsed")
              ELSE m_pc' = "list_text_files" /\ m_exit' = m_exit
    /\ UNCHANGED <<raw_dir, parsed_dir, extract_dir, pdf_files, parsing_results,
                   text_files, extraction_results, pool, successful_extractions,
                   failed_extractions, report_log, parseVars, extractVars, processVars, pageVars>>
    /\ UNCHANGED <<crashed, environment, poolVars>>

\* main.py 165-185: the listing of the text files (the kept names of
\* os.listdir, in any order), then the Stage-2 pool
ListTextFiles ==
    /\ m_pc = "list_text_files"
    /\ \E files \in Listings({f \in DOMAIN parsed_dir : is_text_file(f)}) :
         /\ text_files' = files
         /\ IF files = <<>>
            THEN Return("no_text_files") /\ UNCHANGED <<pool, extraction_results>>
            ELSE /\ m_pc' = "stage2" /\ m_exit' = m_exit
                 /\ pool' = new_pool(2, files)
                 /\ extraction_results' = [i \in 1..Len(files) |-> Pending]
    /\ UNCHANGED <<raw_dir, parsed_dir, extract_dir, pdf_files, parsing_results,
                   successful_parses, failed_parses, successful_extractions,
                   failed_extractions, printed, report_log, parseVars, extractVars, processVars, pageVars>>
    /\ UNCHANGED <<crashed, environment, poolVars>>

\* a Stage-2 worker runs extract_single_text_wrapper on its item and hands the
\* result back
ExtractItem(i) ==
    /\ m_pc = "stage2"
    /\ i \in pool.inflight
    /\ \E ctor_ok \in constructor_outcomes(environment.client), w \in ExtractScenarios :
         /\ ctor_ok \/ w = GoodText
         /\ LET r == extract_single_text_wrapper(text_files[i], ctor_ok,
                         [w EXCEPT !.content = content_of(parsed_dir, text_files[i])],
                         extract_dir)
            IN  /\ extraction_results' = map_result(extraction_results, i, r.ret)
                /\ extract_dir' = r.fs
         /\ crashed' = IF ~ctor_ok THEN crashed \cup {<<2, i>>} ELSE crashed
    /\ pool' = [pool EXCEPT !.inflight = @ \ {i}]
    /\ UNCHANGED <<poolVars, m_pc, m_exit, environment, raw_dir, parsed_dir, pdf_files, parsing_results,
                   text_files, successful_parses, failed_parses, successful_extractions,
                   failed_extractions, printed, report_log, parseVars, extractVars, processVars, pageVars>>

\* main.py 186-203: the pool has returned every result; main counts them
CountExtraction ==
    /\ m_pc = "stage2"
    /\ map_returned(extraction_results)
    /\ LET c == count_extraction(extraction_results, 1, 0, 0)
       IN  /\ successful_extractions' = c.succ
           /\ failed_extractions' = c.fail
           /\ IF c.raised THEN Return("error_during_extraction")
              ELSE m_pc' = "write_report" /\ m_exit' = m_exit
    /\ UNCHANGED <<raw_dir, parsed_dir, extract_dir, pdf_files, parsing_results,
                   text_files, extraction_results, pool, successful_parses,
                   failed_parses, printed, report_log, parseVars, extractVars, processVars, pageVars>>
    /\ UNCHANGED <<crashed, environment, poolVars>>

\* main.py 205-255: main writes the consolidated report; a failing write leaves
\* main through its except clause
WriteReport ==
    /\ m_pc = "write_report"
    /\ \E ok \in BOOLEAN :
         /\ report_log' = Append(report_log,
                [by |-> "coordinator",
                 complete |-> ok,
                 total_files_processed |-> Len(pdf_files),
                 successful_extractions |-> successful_extractions,
                 failed_extractions |-> failed_extractions,
                 individual_results |-> extraction_results])
         /\ Return(IF ok THEN "completed" ELSE "error_during_extraction")
    /\ UNCHANGED <<raw_dir, parsed_dir, extract_dir, pdf_files, parsing_results,
                   text_files, extraction_results, pool, successful_parses,
                   failed_parses, successful_extractions, failed_extractions, printed,
                   parseVars, extractVars, processVars, pageVars>>
    /\ UNCHANGED <<crashed, environment, poolVars>>

Next ==
    \/ ListPdfFiles
    \/ TestConnection
    \/ TakeItem
    \/ \E i \in 1..(MaxFiles + 1) : ParseItem(i)
    \/ CountParsing
    \/ ListTextFiles
    \/ \E i \in 1..(MaxFiles + 1) : ExtractItem(i)
    \/ CountExtraction
    \/ WriteReport

Spec == Init /\ [][Next]_vars

\* the coordinator runs on, the pool hands every item to a worker, and every
\* worker that holds an item finishes it
Fairness ==
    /\ WF_vars(ListPdfFiles) /\ WF_vars(TestConnection)
    /\ WF_vars(TakeItem)
    /\ \A i \in 1..(MaxFiles + 1) : WF_vars(ParseItem(i)) /\ WF_vars(ExtractItem(i))
    /\ WF_vars(CountParsing) /\ WF_vars(ListTextFiles)
    /\ WF_vars(CountExtraction) /\ WF_vars(WriteReport)

SpecLive == Spec /\ Fairness

(***************************************************************************)
(* One pool stage of main over an input list that can be longer than       *)
(* MAX_PROCESSES.  Only the number of items counts here: an item is its    *)
(* position in the list, and of the items in flight the oldest is the one  *)
(* that returns (every order of returning is explored in Spec).            *)
(***************************************************************************)
InitPool ==
    /\ k_pc = "start"
    /\ k_stage \in {1, 2}
    /\ k_items \in {[i \in 1..n |-> i] : n \in 0..MaxItems}
    /\ k_pool = new_pool(0, <<>>)
    /\ ParseIdle /\ ExtractIdle /\ ProcessIdle /\ PageIdle /\ CoordinatorIdle

\* main.py 94-96 and 133, 172-174 and 185: main returns on an empty list, and
\* creates the pool otherwise
CreatePool ==
    /\ k_pc = "start"
    /\ IF k_items = <<>>
       THEN k_pc' = "done" /\ k_pool' = k_pool
       ELSE k_pc' = "running" /\ k_pool' = new_pool(k_stage, k_items)
    /\ UNCHANGED <<k_stage, k_items, parseVars, extractVars, processVars, pageVars, mainVars>>

\* an idle worker of the pool takes the next item of the input list
PoolTake ==
    /\ k_pc = "running"
    /\ k_pool.next <= Len(k_items)
    /\ Cardinality(k_pool.inflight) < k_pool.processes
    /\ k_pool' = [k_pool EXCEPT !.next = @ + 1, !.inflight = @ \cup {k_pool.next}]
    /\ UNCHANGED <<k_pc, k_stage, k_items, parseVars, extractVars, processVars, pageVars, mainVars>>

\* a worker hands back the result of its item
PoolReturn ==
    /\ k_pc = "running"
    /\ k_pool.inflight # {}
    /\ LET i == CHOOSE x \in k_pool.inflight : \A y \in k_pool.inflight : x <= y
       IN  k_pool' = [k_pool EXCEPT !.inflight = @ \ {i}]
    /\ UNCHANGED <<k_pc, k_stage, k_items, parseVars, extractVars, processVars, pageVars, mainVars>>

\* the with block of the pool is left: map has handed back every result
PoolJoin ==
    /\ k_pc = "running"
    /\ k_pool.next > Len(k_items) /\ k_pool.inflight = {}
    /\ k_pc' = "done"
    /\ UNCHANGED <<k_stage, k_items, k_pool, parseVars, extractVars, processVars, pageVars, mainVars>>

NextPool == CreatePool \/ PoolTake \/ PoolReturn \/ PoolJoin

SpecPool == InitPool /\ [][NextPool]_vars

(***************************************************************************)
(* Claims about a run of main (checked under Spec).                        *)
(***************************************************************************)
\* Stage 1 is over: the pool returned and main left the loop over its results
Stage1Over == m_pc \in {"list_text_files", "stage2", "write_report"}
                \/ (m_pc = "done" /\ m_exit \notin {"no_pdf_directory", "no_pdf_files",
                                                   "connection_failed"})

\* Stage 2 is over: the pool returned and main left the loop over its results
Stage2Over == m_pc = "write_report"
                \/ (m_pc = "done" /\ m_exit \in {"completed", "error_during_extraction"})

\* C1: each pool stage of main hands back exactly one record per input file, and
\* its success count plus its failure count is the number of input files,
\* whichever items fail.
C1_OneRecordPerInput ==
    /\ Stage1Over
         => /\ Len(parsing_results) = Len(pdf_files)
            /\ map_returned(parsing_results)
            /\ successful_parses + failed_parses = Len(pdf_files)
    /\ Stage2Over
         => /\ Len(extraction_results) = Len(text_files)
            /\ map_returned(extraction_results)
            /\ successful_extractions + failed_extractions = Len(text_files)

\* the part of C1 about the result lists alone
ResultListsMatchInputs ==
    /\ m_pc \in {"stage1", "list_text_files", "stage2", "write_report"} \/ Stage1Over
         => Len(parsing_results) = Len(pdf_files)
    /\ Stage1Over => map_returned(parsing_results)
    /\ m_pc \in {"stage2", "write_report"} \/ Stage2Over
         => Len(extraction_results) = Len(text_files)
    /\ Stage2Over => map_returned(extraction_results)
    /\ Stage2Over => successful_extractions + failed_extractions = Len(text_files)

SomeParseSucceeded ==
    \E i \in DOMAIN parsing_results : get_success(parsing_results[i])

\* C2: no failure outcome of a single document aborts the batch: once Stage 1 is
\* over, main has printed and counted the outcome of every document, and it goes
\* on to Stage 2 if some document was parsed.
C2_FailureDoesNotAbortBatch ==
    Stage1Over
    => /\ Len(printed) = Len(pdf_files)
       /\ \A i \in DOMAIN printed : printed[i].filename = pdf_files[i]
       /\ successful_parses + failed_parses = Len(pdf_files)
       /\ SomeParseSucceeded => m_exit # "error_during_pdf_parsing"

\* C8: within one Stage-1 batch no text or info artifact of the output directory
\* is written for two different input PDFs.
C8_ArtifactsHaveOneSource ==
    \A f \in DOMAIN parsed_dir :
        endswith(f, Ext_txt) => Cardinality(parsed_dir[f].writers) <= 1

ParsedOk == {i \in DOMAIN parsing_results : get_success(parsing_results[i])}

\* C9: the Stage-2 inputs are exactly the text artifacts of the documents Stage 1
\* parsed: each parsed PDF has its own text file in the list, once, and nothing
\* else is in the list.
C9_Stage2InputsAreStage1Outputs ==
    m_pc \in {"stage2", "write_report"} \/ Stage2Over
    => /\ \A i \in ParsedOk :
            Cardinality({j \in DOMAIN text_files :
                            text_files[j] = parsing_results[i].text_file}) = 1
       /\ \A i, k \in ParsedOk :
            i # k => parsing_results[i].text_file # parsing_results[k].text_file
       /\ \A j \in DOMAIN text_files :
            \E i \in ParsedOk : text_files[j] = parsing_results[i].text_file

\* C10: the consolidated report is written at most once, by the coordinator, and
\* only when every Stage-2 item has been taken by a worker and has returned its
\* result.
C10_ReportOnceAfterJoin ==
    /\ Len(report_log) <= 1
    /\ \A k \in DOMAIN report_log :
        /\ report_log[k].by = "coordinator"
        /\ pool.stage = 2
        /\ pool.inflight = {}
        /\ pool.next = Len(text_files) + 1
        /\ \A i \in DOMAIN extraction_results : ~IsPending(extraction_results[i])
        /\ report_log[k].individual_results = extraction_results

\* the report was written in a run whose Stage 2 had several items
C10_Witness ==
    /\ Len(report_log) = 1
    /\ Len(text_files) >= 2
    /\ \E i \in DOMAIN extraction_results : ~get_success(extraction_results[i])

\* the results of the items of a stage whose worker saw an exception
CrashedResults(stage, results) ==
    {results[i] : i \in {j \in DOMAIN results : <<stage, j>> \in crashed}}

\* C11: an exception that leaves the constructor or the per-document call of a
\* worker is caught in that worker and handed back as a failure record with
\* success = False for its item; no exception is handed to the coordinator, the
\* coordinator does not move in the step of the crash, and the result of every
\* other item stays what it was.
C11_WorkerExceptionIsItemFailure ==
    /\ [](/\ \A r \in CrashedResults(1, parsing_results) \cup CrashedResults(2, extraction_results) :
               /\ ~IsPending(r)
               /\ "success" \in DOMAIN r /\ r.success = FALSE
               /\ "error" \in DOMAIN r
          /\ \A i \in DOMAIN parsing_results : ~IsRaise(parsing_results[i])
          /\ \A i \in DOMAIN extraction_results : ~IsRaise(extraction_results[i]))
    /\ [][crashed' # crashed
            => /\ m_pc' = m_pc /\ m_exit' = m_exit
               /\ \A i \in DOMAIN parsing_results :
                    ~IsPending(parsing_results[i]) => parsing_results'[i] = parsing_results[i]
               /\ \A i \in DOMAIN extraction_results :
                    ~IsPending(extraction_results[i])
                        => extraction_results'[i] = extraction_results[i]]_vars

\* a run in which a Stage-1 worker and a Stage-2 worker crashed, each next to an
\* item that succeeded, and main wrote its report
C11_Witness ==
    /\ m_exit = "completed"
    /\ \E i, j \in DOMAIN parsing_results :
         <<1, i>> \in crashed /\ get_success(parsing_results[j])
    /\ \E i, j \in DOMAIN extraction_results :
         <<2, i>> \in crashed /\ get_success(extraction_results[j])

(***************************************************************************)
(* Claims about process_parsed_text_file (checked under SpecProcess).      *)
(***************************************************************************)
\* the call read the file and obtained an extraction result
ExtractionObtained == f_pc = "returned" /\ f_env.exists /\ f_env.read_ok

\* the extraction result the call obtained
ObtainedResult == extract_marine_fuel_data(f_text, f_env.service).ret

\* C12 as stated: process_parsed_text_file reports success = True if and only
\* if the extraction result it obtained holds no error key, whatever the outcome
\* of writing the JSON record.
C12_SuccessIffNoErrorKey ==
    ExtractionObtained
    => (get_success(f_result) <=> "error" \notin DOMAIN ObtainedResult)

\* C12, amended: process_parsed_text_file reports success = True if and only if
\* it read the file, the extraction result it obtained holds no error key, and
\* it wrote the JSON record; when the file is missing or the read or the write
\* fails it does not report success.
C12_SuccessIffNoErrorKeyAndWritten ==
    f_pc = "returned"
    => (get_success(f_result)
          <=> /\ ExtractionObtained
              /\ "error" \notin DOMAIN ObtainedResult
              /\ f_env.write = "ok")

\* the extraction gave an error-free result and the write of the record failed
C12_Witness ==
    /\ ExtractionObtained
    /\ "error" \notin DOMAIN ObtainedResult
    /\ f_env.write = "fail_write"
    /\ ~get_success(f_result)

(***************************************************************************)
(* Further claims about extract_marine_fuel_data (checked under            *)
(* SpecExtract).                                                           *)
(***************************************************************************)
\* C13: whenever the completion service returns text that json.loads cannot
\* parse, extract_marine_fuel_data returns a failure record that holds an error
\* and, under raw_response, the text exactly as the service returned it.
C13_RawResponseIsKept ==
    (/\ e_pc = "returned"
     /\ e_service.kind = "content"
     /\ e_service.content # NoContent
     /\ ~json_loads(e_service.content).ok)
    => /\ {"error", "raw_response"} \subseteq DOMAIN e_result
       /\ e_result.raw_response = e_service.content

(***************************************************************************)
(* Further claims about process_parsed_text_file (checked under            *)
(* SpecProcess).                                                           *)
(***************************************************************************)
\* the call parsed the header of a Stage-1 artifact and built its record
HeaderParsedBack ==
    /\ f_pc = "returned"
    /\ IsArtifact(f_src)
    /\ ~f_env.header_raises
    /\ "extracted_data" \in DOMAIN f_result

\* C14: for every text artifact written by parse_and_save, the metadata that
\* process_parsed_text_file parses back holds the original_filename, the
\* text_length and the extraction_method that parse_and_save wrote for the
\* document.
C14_MetadataRoundTrip ==
    HeaderParsedBack
    => LET m == f_result.extracted_data.document_metadata
       IN  /\ m.original_filename = f_src.filename
           /\ m.text_length = str(f_src.text_length)
           /\ m.extraction_method = <<f_src.extraction_method>>

\* the file has no header marker, or the header marker without the start of
\* content, or the parsing of its header raises
HeaderUnusable ==
    \/ ~contains(f_env.content, Marker_metadata)
    \/ ~contains(f_env.content, Marker_content)
    \/ f_env.header_raises

\* C15: when the file read has no metadata header, or the header marker but no
\* start-of-content marker, or header parsing raises, the call hands the entire
\* file content to the extraction as document text, and it still builds and
\* writes its record unless the write itself fails.
C15_HeaderFallbackIsWholeContent ==
    (ExtractionObtained /\ HeaderUnusable)
    => /\ f_text = f_env.content
       /\ f_env.write = "ok"
            => /\ "extracted_data" \in DOMAIN f_result
               /\ f_result.document_length = Len(f_env.content)
               /\ f_result.extracted_data.extracted_fields = ObtainedResult
               /\ f_result.output_file \in DOMAIN f_fs
               /\ f_fs[f_result.output_file].complete

\* a file with the header marker but without the start of content was read, its
\* whole content extracted and the record written
C15_Witness ==
    /\ ExtractionObtained
    /\ f_env.content = Content_header_only
    /\ ~f_env.header_raises
    /\ f_env.write = "ok"
    /\ f_text = Content_header_only
    /\ f_result.success = TRUE

(***************************************************************************)
(* Claims about one page (checked under SpecPage).                         *)
(***************************************************************************)
IsImage(x) == DOMAIN x = {"width", "height", "steps"}

\* C16: preprocess_image_for_ocr returns an image for every input image and
\* never raises; when a step of the pipeline fails, what it returns is the input
\* image, unchanged.
C16_PreprocessIsTotal ==
    g_pc \in {"preprocessed", "returned"}
    => /\ ~IsRaise(g_processed)
       /\ IsImage(g_processed)
       /\ g_env.fail_step \in 1..Len(steps_run(g_image)) => g_processed = g_image

\* the resize, the last step, raised on a small page and the page came back as
\* it was rendered
C16_Witness ==
    /\ g_pc = "preprocessed"
    /\ g_env.fail_step = Len(PipelineSteps)
    /\ g_image.width < MinDim
    /\ g_processed = g_image

\* the configuration c produced output for the page
ProducedOutput(c) == ~g_env.ocr[c].raises /\ g_env.ocr[c].text # <<>>

Candidates == {c \in OcrConfigs : ProducedOutput(c)}
BestCandidates ==
    {c \in Candidates : \A d \in Candidates : g_env.ocr[d].conf <= g_env.ocr[c].conf}

\* C18: the text the adapter returns for a page is the text of the
\* configuration whose mean token confidence is the highest among the fixed
\* configurations that produced output for the page.
C18_BestConfigurationWins ==
    (g_pc = "returned" /\ Candidates # {})
    => \E c \in BestCandidates : g_text = g_env.ocr[c].text

(***************************************************************************)
(* Further claims about the PDF Text Parser (checked under SpecParse).     *)
(***************************************************************************)
\* the parser's call ended in a failure outcome: an exception or a failure dict
ParseFailed ==
    /\ p_pc \in {"returned", "failed_construction"}
    /\ IsRaise(p_result) \/ p_result.success = FALSE

\* the reason of a failure outcome
ReasonOf(r) == IF IsRaise(r) THEN r.exception ELSE r.error

\* the reasons of the four error conditions
Reasons_missing == {"File not found"}
Reasons_toolchain == {"Poppler binaries are required for PDF processing",
                      "Tesseract OCR is required for processing scanned documents"}
Reasons_no_text == {"No meaningful text extracted via enhanced OCR"}
Reasons_write == {"makedirs failed", "Failed to save text file"}

\* C19: a missing PDF, a toolchain missing at construction, insufficient
\* extracted text and a failing write each end in a failure outcome with a
\* reason of their own, and no success is returned with only part of the output
\* written.
C19_DistinctReasonsNoPartialSuccess ==
    /\ p_pc = "failed_construction"
         => ParseFailed /\ ReasonOf(p_result) \in Reasons_toolchain
    /\ (p_pc = "returned" /\ ~p_doc.exists)
         => ParseFailed /\ ReasonOf(p_result) \in Reasons_missing
    /\ (p_pc = "returned" /\ p_doc.exists /\ ~p_doc.makedirs_ok)
         => ParseFailed /\ ReasonOf(p_result) \in Reasons_write
    /\ (p_pc = "returned" /\ p_doc.exists /\ p_doc.makedirs_ok
           /\ TrimmedOcrChars(p_doc) < MinTextLen)
         => ParseFailed /\ ReasonOf(p_result) \in Reasons_no_text
    /\ (p_pc = "returned" /\ p_doc.exists /\ p_doc.makedirs_ok
           /\ TrimmedOcrChars(p_doc) >= MinTextLen
           /\ (p_doc.text_write # "ok" \/ p_doc.info_write # "ok"))
         => ParseFailed /\ ReasonOf(p_result) \in Reasons_write
    /\ \A R1, R2 \in {Reasons_missing, Reasons_toolchain, Reasons_no_text, Reasons_write} :
         R1 # R2 => R1 \cap R2 = {}
    /\ (ParseReturned /\ p_result.success = TRUE)
         => /\ WrittenByCall(p_result.text_file)
            /\ WrittenByCall(p_result.info_file)

(***************************************************************************)
(* Further claims about a run of main (checked under Spec).                *)
(***************************************************************************)
EnvironmentError == ~environment.toolchain \/ ~environment.client

\* C20: when the OCR toolchain is missing or the extraction client cannot be
\* constructed, main finds out at startup: it hands no document to a worker,
\* no artifact is written, Stage 2 is not started, and main ends for that
\* reason.
C20_EnvironmentErrorIsFatalAtStartup ==
    EnvironmentError
    => /\ m_pc \in {"start", "test_connection", "done"}
       /\ pool.stage = 0 /\ pool.next = 1
       /\ parsing_results = <<>> /\ text_files = <<>>
       /\ \A f \in DOMAIN parsed_dir : parsed_dir[f].writers = {}
       /\ extract_dir = EmptyDir
       /\ m_pc = "done"
            => m_exit \in {"no_pdf_directory", "no_pdf_files", "connection_failed"}

(***************************************************************************)
(* Further claims about the page loop of extract_text_ocr (checked under    *)
(* SpecParse, where p_text is the text the call returned).                  *)
(***************************************************************************)
\* extract_text_ocr ran its page loop: the PDF was there and was rendered
OcrReturned ==
    p_pc = "returned" /\ p_doc.exists /\ p_doc.makedirs_ok /\ p_doc.convert_ok

\* the marker line of page i, and where it stands in the returned text
page_marker(i) == PageMarkerHead \o str(i) \o PageMarkerTail
MarkerAt(i) == Occurrences(p_text, page_marker(i))

\* the page numbers a marker could carry
MarkerNumbers == 0..9

\* the OCR text of page i of the source PDF, as the adapter returned it
OcrTextOf(i) == extract_text_with_ocr_config(p_doc.pages[i])

\* C21: in the text extract_text_ocr returns, a page of the PDF has a marker
\* exactly when its OCR text is not empty after trimming; the marker carries
\* the page's 1-based index in the PDF; and the markers stand in ascending
\* order of page number.
C21_PageMarkersAscendingByIndex ==
    OcrReturned
    => /\ \A n \in MarkerNumbers :
            /\ Cardinality(MarkerAt(n)) <= 1
            /\ MarkerAt(n) # {}
                 <=> (n \in 1..Len(p_doc.pages) /\ strip(OcrTextOf(n)) # <<>>)
       /\ \A i, j \in MarkerNumbers :
            (i < j /\ MarkerAt(i) # {} /\ MarkerAt(j) # {})
            => \A x \in MarkerAt(i), y \in MarkerAt(j) : x < y

\* a two-page PDF whose first page is blank: the one marker is that of page 2
C21_Witness ==
    /\ OcrReturned
    /\ Len(p_doc.pages) = 2
    /\ strip(OcrTextOf(1)) = <<>>
    /\ MarkerAt(1) = {} /\ MarkerAt(2) = {1}

\* Tesseract raises on page i
OcrRaisesOn(i) == p_doc.pages[i].raises

\* the marker of page j followed by the page's text, whitespace-collapsed
KeptBlock(j) == page_marker(j) \o split_join(p_doc.pages[j].text)

\* C22: when OCR raises on a page, that page's text is "" and the page has no
\* marker in the result, and every other page of the document that yields text
\* is still in the result with its text.
C22_RaisingPageIsOmittedOthersKept ==
    OcrReturned
    => \A i \in 1..Len(p_doc.pages) :
          OcrRaisesOn(i)
          => /\ OcrTextOf(i) = <<>>
             /\ MarkerAt(i) = {}
             /\ \A j \in 1..Len(p_doc.pages) :
                  (~OcrRaisesOn(j) /\ strip(p_doc.pages[j].text) # <<>>)
                  => contains(p_text, KeptBlock(j))

\* OCR raises on page 1 of two, and page 2 is in the result
C22_Witness ==
    /\ OcrReturned
    /\ Len(p_doc.pages) = 2
    /\ OcrRaisesOn(1) /\ ~OcrRaisesOn(2)
    /\ p_doc.pages[2].text = T_invoice
    /\ p_text = KeptBlock(2)

(***************************************************************************)
(* Claims about the size of a stage's pool (checked under SpecPool).        *)
(***************************************************************************)
PoolCreated == k_pc \in {"running", "done"} /\ k_pool.stage # 0

\* C23: the pool of a stage has min(MAX_PROCESSES, number of input files)
\* workers, which is at least 1 and at most MAX_PROCESSES; no pool is created
\* for an empty list; and the items in flight are never more than the workers.
C23_PoolSizeIsMinAndBoundsInFlight ==
    /\ k_pc \in {"running", "done"} => (k_pool.stage # 0 <=> k_items # <<>>)
    /\ PoolCreated
        => /\ k_pool.processes = Min(MAX_PROCESSES, Len(k_items))
           /\ k_pool.processes >= 1
           /\ k_pool.processes <= MAX_PROCESSES
           /\ Cardinality(k_pool.inflight) <= k_pool.processes

\* more input files than MAX_PROCESSES, every worker busy, items still waiting
C23_Witness ==
    /\ PoolCreated
    /\ Len(k_items) > MAX_PROCESSES
    /\ Cardinality(k_pool.inflight) = MAX_PROCESSES
    /\ k_pool.next <= Len(k_items)

(***************************************************************************)
(* Further claims about preprocess_image_for_ocr (checked under SpecPage).  *)
(***************************************************************************)
\* the call has returned and no step of the pipeline raised
PreprocessSucceeded ==
    /\ g_pc \in {"preprocessed", "returned"}
    /\ g_env.fail_step \notin 1..Len(steps_run(g_image))

SmallerDim(image) == Min(image.width, image.height)
LargerDim(image) == IF image.width >= image.height THEN image.width ELSE image.height
Abs(n) == IF n < 0 THEN 0 - n ELSE n

\* width and height were scaled by the same factor, up to the truncation of
\* each to whole pixels
UniformlyScaled(in, out) ==
    Abs(out.width * in.height - out.height * in.width) <= LargerDim(in)

\* C24: when preprocessing succeeds, an image with a dimension below 300 comes
\* back scaled by one factor, with its smaller dimension at 300 and both
\* dimensions at least 300; an image with both dimensions at least 300 comes
\* back with its width and height.
C24_UpscaleReachesTheFloor ==
    PreprocessSucceeded
    => IF is_small(g_image)
       THEN /\ UniformlyScaled(g_image, g_processed)
            /\ SmallerDim(g_processed) = MinDim
            /\ g_processed.width >= MinDim /\ g_processed.height >= MinDim
       ELSE /\ g_processed.width = g_image.width
            /\ g_processed.height = g_image.height

(***************************************************************************)
(* Further claims about a run of main (checked under Spec).                *)
(***************************************************************************)
\* C25: in every consolidated report main writes, total_files_processed is
\* successful_extractions + failed_extractions and is the number of entries
\* of individual_results.
C25_ReportCountsAgree ==
    \A k \in DOMAIN report_log :
        LET report == report_log[k]
        IN  /\ report.total_files_processed
                 = report.successful_extractions + report.failed_extractions
            /\ report.total_files_processed = Len(report.individual_results)

(***************************************************************************)
(* Further claims about process_parsed_text_file (checked under            *)
(* SpecProcess).                                                           *)
(***************************************************************************)
\* the file was there and was read, and the JSON record can be written
ProcessedWritable == ExtractionObtained /\ f_env.write = "ok"

\* the name of the JSON record of the text file
RecordName == splitext_base(f_file) \o Suffix_json

\* C26: a call on an existing, readable text file with a writable output
\* directory writes exactly one JSON record, named from the file's base name,
\* whether the extraction succeeded or failed; when the extraction failed, the
\* record's extracted_fields holds the error and the call reports success =
\* False.
C26_OneRecordPerProcessedFile ==
    ProcessedWritable
    => /\ DOMAIN f_fs = {RecordName}
       /\ f_fs[RecordName].complete
       /\ f_fs[RecordName].writers = {f_file}
       /\ f_result.output_file = RecordName
       /\ f_result.extracted_data.extracted_fields = ObtainedResult
       /\ "error" \in DOMAIN ObtainedResult
            => /\ "error" \in DOMAIN f_result.extracted_data.extracted_fields
               /\ f_result.success = FALSE

\* the service raised, and the record with the error was written
C26_Witness ==
    /\ ProcessedWritable
    /\ f_env.service.kind = "raise"
    /\ RecordName \in DOMAIN f_fs
    /\ "error" \in DOMAIN f_result.extracted_data.extracted_fields
    /\ f_result.success = FALSE

\* the file is an artifact of Stage 1, it was read and its header parsed
ArtifactRead == ExtractionObtained /\ IsArtifact(f_src) /\ ~f_env.header_raises

\* C27: for every artifact written by parse_and_save, the document text that
\* process_parsed_text_file takes from between the start-of-content marker
\* and the end-of-document marker, and hands to the extraction, is the
\* concatenated page text Stage 1 wrote, page markers included.
C27_TextRoundTrip ==
    ArtifactRead => f_text = f_written

\* the artifact of a two-page document was read back with both page markers
C27_Witness ==
    /\ ArtifactRead
    /\ f_text = f_written
    /\ contains(f_text, page_marker(1)) /\ contains(f_text, page_marker(2))
    /\ Len(f_env.content) > Len(f_text)

\* the record names the input file `name` wherever it names a file
NamesInput(record, name) ==
    /\ "filename" \in DOMAIN record => record.filename = name
    /\ "pdf_path" \in DOMAIN record => record.pdf_path = name
    /\ "text_file" \in DOMAIN record
         => record.text_file = (IF is_pdf(name) THEN text_file_name(splitext_base(name))
                                ELSE name)
    /\ "filename_base" \in DOMAIN record => record.filename_base = splitext_base(name)

\* C28: whatever the order in which the workers finish, the record at
\* position i of a stage's result list is the outcome of the input file at
\* position i of the stage's listing.
C28_ResultsInInputOrder ==
    /\ m_pc \in {"stage1", "list_text_files", "stage2", "write_report"}
         => Len(parsing_results) = Len(pdf_files)
    /\ m_pc \in {"stage2", "write_report"} => Len(extraction_results) = Len(text_files)
    /\ \A i \in DOMAIN parsing_results :
         ~IsPending(parsing_results[i]) => NamesInput(parsing_results[i], pdf_files[i])
    /\ \A i \in DOMAIN extraction_results :
         ~IsPending(extraction_results[i]) => NamesInput(extraction_results[i], text_files[i])

\* the worker of the second file finished first, and its record is in the
\* second position
C28_Witness ==
    /\ m_pc = "stage1"
    /\ Len(pdf_files) = 2
    /\ IsPending(parsing_results[1])
    /\ ~IsPending(parsing_results[2])
    /\ "filename" \in DOMAIN parsing_results[2]
    /\ parsing_results[2].filename = pdf_files[2]

\* Stage 2 has started: its pool exists
Stage2Started == pool.stage = 2

\* every Stage-1 item has returned its result
Stage1AllReturned ==
    /\ Len(parsing_results) = Len(pdf_files)
    /\ map_returned(parsing_results)

\* C29: no Stage-2 item starts before every Stage-1 item has returned its
\* result; and when no PDF was parsed successfully, Stage 2 is never started
\* and no consolidated report is written, whatever text files the parsed
\* directory holds.
C29_StagesInOrder ==
    /\ (Stage2Started \/ text_files # <<>> \/ extraction_results # <<>>)
         => Stage1AllReturned
    /\ (Stage2Started \/ report_log # <<>>)
         => \E i \in DOMAIN parsing_results : get_success(parsing_results[i])
    /\ (m_pc = "done" /\ Stage1AllReturned
          /\ \A i \in DOMAIN parsing_results : ~get_success(parsing_results[i]))
         => /\ ~Stage2Started /\ report_log = <<>>
            /\ text_files = <<>> /\ extraction_results = <<>>
            /\ extract_dir = EmptyDir

\* every PDF failed while the parsed directory held a text file of an earlier
\* run, and main ended without Stage 2
C29_Witness ==
    /\ m_pc = "done" /\ m_exit = "no_pdf_parsed"
    /\ Name_old_txt \in DOMAIN parsed_dir
    /\ Len(pdf_files) = 2
    /\ Stage1AllReturned
    /\ ~Stage2Started /\ report_log = <<>>

(***************************************************************************)
(* Termination of a run of main (checked under SpecLive).                  *)
(***************************************************************************)
\* Stage 2 has handed back a result for every text file
Stage2AllReturned ==
    /\ Len(extraction_results) = Len(text_files)
    /\ map_returned(extraction_results)

\* main has reached the write of the consolidated report
ReportWritten == report_log # <<>>

\* C30: with items that terminate and workers that are scheduled fairly, each
\* stage ends with a result for every input; and when a PDF was parsed
\* successfully and Stage 2 found a text artifact, main comes to write the
\* consolidated report, whichever extraction items fail.
C30_StagesTerminateAndReportIsWritten ==
    /\ (m_pc = "stage1") ~> (m_pc # "stage1" /\ Stage1AllReturned)
    /\ (m_pc = "stage2") ~> (m_pc # "stage2" /\ Stage2AllReturned)
    /\ ((\E i \in DOMAIN parsing_results : get_success(parsing_results[i]))
          /\ text_files # <<>>)
         ~> (ReportWritten /\ m_pc = "done")
    /\ <>(m_pc = "done")

\* main wrote the report of a Stage 2 in which one item failed and one did not
C30_Witness ==
    /\ m_pc = "done" /\ ReportWritten
    /\ \E i \in DOMAIN extraction_results : ~get_success(extraction_results[i])
    /\ \E i \in DOMAIN extraction_results : get_success(extraction_results[i])
====
